---- MODULE Spec2Model ----
(***************************************************************************)
(* A model of the two runtime components of type-utilities-lib:            *)
(*   - retry(fn, retries, delay)     src/utils/index.ts                    *)
(*   - Cache(ttl) method decorator   src/decorators/index.ts               *)
(*   - Log(options) method decorator Log, among the decorators             *)
(* Time is a global integer clock (Date.now(), and the timer queue that    *)
(* setTimeout feeds).                                                      *)
(***************************************************************************)
EXTENDS Integers, Sequences, FiniteSets, TLC

\* ------------------------------------------------------------------ bounds

\* Largest `retries` an execution is called with.
MaxRetries == 3
\* Largest `delay` an execution is called with.
MaxDelay == 2
\* The clock stops advancing on its own here (a pending timer may push it on).
MaxTime == 3
\* Largest number of calls of a decorated method.
MaxCalls == 2

\* ------------------------------------------------------------- the inputs

\* The retry executions that may exist at once.
Execs == {"A", "B"}

\* `retries` as the caller may pass it: invalid (negative, zero) and valid.
RetriesValues == {-1, 0} \cup (1 .. MaxRetries)

\* `delay` as the caller may pass it: invalid (negative) and valid.
DelayValues == {-1} \cup (0 .. MaxDelay)

\* What a call of fn does, by the number of the call: resolve or reject.
FnBehaviours == [1 .. MaxRetries -> {"ok", "fail"}]

\* What fn rejects with: an Error, a string, or a plain object.
ErrKinds == {"Error", "string", "object"}

\* `ttl` as Cache may be constructed with: invalid (negative), zero, positive.
TtlValues == {-1, 0, 2}

\* JavaScript values that are passed as arguments. An object is the sequence
\* of its fields, <<name, number>>, in insertion order.
Num(n) == [t |-> "number", n |-> n, s |-> "", f |-> <<>>]
Obj(f) == [t |-> "object", n |-> 0, s |-> "", f |-> f]

\* The values undefined and null.
Undefined == [t |-> "undefined", n |-> 0, s |-> "", f |-> <<>>]
Null == [t |-> "null", n |-> 0, s |-> "", f |-> <<>>]

\* Argument lists of values that JSON has no notation of their own for:
\* [undefined] and [null], beside [5].
NullishArgLists == { <<Undefined>>, <<Null>>, <<Num(5)>> }

\* The argument lists the wrapped method is called with: [5], [{a:1,b:2}]
\* and [{b:2,a:1}].
ArgLists ==
  { <<Num(5)>>,
    <<Obj(<< <<"a", 1>>, <<"b", 2>> >>)>>,
    <<Obj(<< <<"b", 2>>, <<"a", 1>> >>)>> }

\* The objects of the class whose method is decorated, and the one that is
\* used where the receiver does not matter.
Instances == {"svc1", "svc2"}
TheInstance == "svc1"

\* The argument list two instances are called with: [5].
InstanceArgLists == { <<Num(5)>> }

\* What a call of the original method does: return a value, throw, or
\* return a promise (which settles later).
OpOutcomes == {"value", "throw", "promise"}

\* Log's options: the level, and the formatter, which is absent, returns a
\* string, or throws.
LogLevels == {"info", "warn"}
Formatters == {"none", "returns", "throws"}

\* What the original method's result is to JSON.stringify: a plain value, or
\* one it throws a TypeError on (a circular structure, a BigInt).
LogResults == {"plain", "circular"}

\* The name of the decorated method.
MethodName == "buscarUsuario"

\* The empty Map.
EmptyMap == [k \in {} |-> 0]

VARIABLES
  now,       \* Date.now(); the time the timer queue sees
  retries,   \* retries[e]: the `retries` argument of execution e
  delay,     \* delay[e]: the `delay` argument of execution e
  fn,        \* fn[e]: the behaviour of e's operation, per call
  errKind,   \* errKind[e]: the kind of value fn[e] rejects with
  pc,        \* pc[e]: "pending" | "attempt" | "sleep" | "done"
  i,         \* i[e]: the loop counter
  starts,    \* starts[e]: the time of each call of fn, in order
  ends,      \* ends[e]: the time each call of fn settled, in order
  timerDue,  \* timerDue[e]: when the pending setTimeout may fire
  delays,    \* delays[e]: the number of setTimeout waits begun
  result,    \* result[e]: what the promise returned by retry settled with
  ttl,       \* the `ttl` argument of Cache(ttl)
  cache,     \* the Map of Cache(ttl): key -> [valor, expira]
  opLog,     \* the calls of the original method so far, in order
  callLog,   \* the calls of the wrapped method so far, in order
  logOpts,   \* the options of Log(options): [disabled, level, formatter]
  logCalls,  \* the calls of the Log-decorated method so far, in order
  console    \* the calls of console's methods so far, in order

retryVars == <<retries, delay, fn, errKind, pc, i, starts, ends, timerDue, delays, result>>

cacheVars == <<ttl, cache, opLog, callLog>>

logVars == <<logOpts, logCalls, console>>

vars == <<now, retryVars, cacheVars, logVars>>

\* ------------------------------------------------------------------ retry

\* The value the k-th call of fn resolves with.
FnValue(e, k) == "value" \o ToString(k)

\* The value the k-th call of fn rejects with.
FnError(e, k) == [kind |-> errKind[e], message |-> "boom" \o ToString(k)]

\* `${error}`: the string a template literal makes of a thrown value.
JSString(err) ==
  CASE err.kind = "Error" -> "Error: " \o err.message
    [] err.kind = "string" -> err.message
    [] OTHER -> "[object Object]"

\* new Error(`[ERROR]: ${error}`)
WrapError(err) == "[ERROR]: " \o JSString(err)

NoResult == [kind |-> "none", value |-> "", message |-> ""]
Resolved(v) == [kind |-> "ok", value |-> v, message |-> ""]
\* A bug: the final failure drops the underlying error.
ExhaustedNoCause(err) == [kind |-> "exhausted", value |-> "", message |-> "[ERROR]: "]
Exhausted(err) == [kind |-> "exhausted", value |-> "", message |-> WrapError(err)]
InternalError == [kind |-> "internal", value |-> "", message |-> "Falha inesperada no retry"]

\* A bug: `i <= retries`.
LoopCondInclusive(e, iv) == iv <= retries[e]
\* A bug: `i < retries - 1`.
LoopCondShort(e, iv) == iv < retries[e] - 1
\* The for loop's condition.
LoopCond(e, iv) == iv < retries[e]

\* A bug: gives up one attempt early.
IsLastAttemptEarly(e) == i[e] = retries[e] - 2
\* A bug: the loop counter is one variable that all executions share.
IsLastAttemptShared(e) == \E x \in Execs : i[x] = retries[e] - 1
\* The catch block's test for the last allowed attempt.
IsLastAttempt(e) == i[e] = retries[e] - 1

\* A bug: setTimeout(resolve) without the delay.
TimerDueNoDelay(d) == now
\* When a timer set now for `d` ms may fire (a host never fires it earlier;
\* a negative delay is clamped to the host's minimum).
TimerDue(d) == now + (IF d < 0 THEN 0 ELSE d)

\* A bug: the call of fn is not awaited, so the loop starts every remaining
\* attempt at once.
LoopHeadNoAwait(e, iv) ==
  /\ i' = [i EXCEPT ![e] = iv]
  /\ IF LoopCond(e, iv)
       THEN /\ pc' = [pc EXCEPT ![e] = "attempt"]
            /\ starts' = [starts EXCEPT ![e] = @ \o [j \in 1 .. (retries[e] - iv) |-> now]]
            /\ result' = result
       ELSE /\ pc' = [pc EXCEPT ![e] = "done"]
            /\ starts' = starts
            /\ result' = [result EXCEPT ![e] = InternalError]

\* The loop's head with counter iv: call fn again, or fall out of the loop.
LoopHead(e, iv) ==
  /\ i' = [i EXCEPT ![e] = iv]
  /\ IF LoopCond(e, iv)
       THEN /\ pc' = [pc EXCEPT ![e] = "attempt"]
            /\ starts' = [starts EXCEPT ![e] = Append(@, now)]
            /\ result' = result
       ELSE /\ pc' = [pc EXCEPT ![e] = "done"]
            /\ starts' = starts
            /\ result' = [result EXCEPT ![e] = InternalError]

\* No method is decorated with Log.
NoLog ==
  /\ logOpts = [disabled |-> TRUE, level |-> "info", formatter |-> "none"]
  /\ logCalls = <<>>
  /\ console = <<>>

\* retry(fn, retries, delay) is called: runs up to the first await.
RetryCall(e) ==
  /\ pc[e] = "pending"
  /\ LoopHead(e, 0)
  /\ UNCHANGED <<now, retries, delay, fn, errKind, ends, timerDue, delays, cacheVars, logVars>>

\* The awaited call of fn settles: return its value, or the catch block.
AttemptSettle(e) ==
  /\ pc[e] = "attempt"
  /\ ends' = [ends EXCEPT ![e] = Append(@, now)]
  /\ LET k == Len(starts[e]) IN
     IF fn[e][k] = "ok"
       THEN /\ pc' = [pc EXCEPT ![e] = "done"]
            /\ result' = [result EXCEPT ![e] = Resolved(FnValue(e, k))]
            /\ UNCHANGED <<timerDue, delays>>
       ELSE IF IsLastAttempt(e)
         THEN /\ pc' = [pc EXCEPT ![e] = "done"]
              /\ result' = [result EXCEPT ![e] = Exhausted(FnError(e, k))]
              /\ UNCHANGED <<timerDue, delays>>
         ELSE /\ pc' = [pc EXCEPT ![e] = "sleep"]
              /\ timerDue' = [timerDue EXCEPT ![e] = TimerDue(delay[e])]
              /\ delays' = [delays EXCEPT ![e] = @ + 1]
              /\ result' = result
  /\ UNCHANGED <<now, retries, delay, fn, errKind, i, starts, cacheVars, logVars>>

\* The timer fires: i++ and the loop's head again.
TimerFire(e) ==
  /\ pc[e] = "sleep"
  /\ now >= timerDue[e]
  /\ LoopHead(e, i[e] + 1)
  /\ UNCHANGED <<now, retries, delay, fn, errKind, ends, timerDue, delays, cacheVars, logVars>>

\* Time passes.
Tick ==
  /\ \/ now < MaxTime
     \/ \E e \in Execs : pc[e] = "sleep" /\ now < timerDue[e]
  /\ now' = now + 1
  /\ UNCHANGED <<retryVars, cacheVars, logVars>>

\* One execution, A, called with any arguments; B is never called.
RetryInit ==
  /\ now = 0
  /\ retries \in [Execs -> RetriesValues]
  /\ delay \in [Execs -> DelayValues]
  /\ fn \in [Execs -> FnBehaviours]
  /\ errKind \in [Execs -> ErrKinds]
  /\ retries["B"] = 1 /\ delay["B"] = 0 /\ errKind["B"] = "Error"
  /\ fn["B"] = [k \in 1 .. MaxRetries |-> "ok"]
  /\ pc = [e \in Execs |-> "pending"]
  /\ i = [e \in Execs |-> 0]
  /\ starts = [e \in Execs |-> <<>>]
  /\ ends = [e \in Execs |-> <<>>]
  /\ timerDue = [e \in Execs |-> 0]
  /\ delays = [e \in Execs |-> 0]
  /\ result = [e \in Execs |-> NoResult]
  /\ ttl = 0
  /\ cache = EmptyMap
  /\ opLog = <<>>
  /\ callLog = <<>>
  /\ NoLog

RetryNext ==
  \/ RetryCall("A")
  \/ AttemptSettle("A")
  \/ TimerFire("A")
  \/ Tick

RetrySpec == RetryInit /\ [][RetryNext]_vars

\* The event loop runs every settled promise's continuation and every due
\* timer, and the clock advances.
RetryFairSpec ==
  /\ RetrySpec
  /\ WF_vars(RetryCall("A"))
  /\ WF_vars(AttemptSettle("A"))
  /\ WF_vars(TimerFire("A"))
  /\ WF_vars(Tick)

\* Two executions at once. `delay` is none or the longest; fn fails its first
\* m calls and resolves from then on.
ConcDelays == {0, MaxDelay}
ConcFns ==
  { [k \in 1 .. MaxRetries |-> IF k <= m THEN "fail" ELSE "ok"] : m \in 0 .. MaxRetries }

\* Two executions: A called with any valid arguments, and B, whose fn fails
\* both times, called with two retries and a delay of one.
ConcInit ==
  /\ now = 0
  /\ retries \in [Execs -> 1 .. MaxRetries]
  /\ \E d \in ConcDelays : delay = [e \in Execs |-> IF e = "A" THEN d ELSE 1]
  /\ fn \in [Execs -> ConcFns]
  /\ retries["B"] = 2
  /\ fn["B"] = [k \in 1 .. MaxRetries |-> "fail"]
  /\ errKind = [e \in Execs |-> "Error"]
  /\ pc = [e \in Execs |-> "pending"]
  /\ i = [e \in Execs |-> 0]
  /\ starts = [e \in Execs |-> <<>>]
  /\ ends = [e \in Execs |-> <<>>]
  /\ timerDue = [e \in Execs |-> 0]
  /\ delays = [e \in Execs |-> 0]
  /\ result = [e \in Execs |-> NoResult]
  /\ ttl = 0
  /\ cache = EmptyMap
  /\ opLog = <<>>
  /\ callLog = <<>>
  /\ NoLog

\* The event loop takes one continuation of either execution, or time passes.
ConcNext ==
  \/ \E e \in Execs : RetryCall(e)
  \/ \E e \in Execs : AttemptSettle(e)
  \/ \E e \in Execs : TimerFire(e)
  \/ Tick

ConcSpec == ConcInit /\ [][ConcNext]_vars

\* ------------------------------------------------------------------ Cache

\* The fields of an object as they appear in JSON, in insertion order.
RECURSIVE FieldsJSON(_)
FieldsJSON(f) ==
  IF f = <<>> THEN ""
  ELSE "\"" \o f[1][1] \o "\":" \o ToString(f[1][2])
       \o (IF Len(f) > 1 THEN "," \o FieldsJSON(Tail(f)) ELSE "")

\* JSON.stringify of one value.
ValueJSON(v) ==
  CASE v.t = "number" -> ToString(v.n)
    [] v.t = "object" -> "{" \o FieldsJSON(v.f) \o "}"
    [] OTHER -> "null"

\* The elements of an array as they appear in JSON.
RECURSIVE ElementsJSON(_)
ElementsJSON(a) ==
  IF a = <<>> THEN ""
  ELSE ValueJSON(a[1]) \o (IF Len(a) > 1 THEN "," \o ElementsJSON(Tail(a)) ELSE "")

\* JSON.stringify(args)
JSONStringify(a) == "[" \o ElementsJSON(a) \o "]"

\* A bug: the receiver is part of the key, so each instance has its own entries.
CacheKeyPerInstance(self, a) == self \o "." \o MethodName \o ":" \o JSONStringify(a)
\* `${key}:${JSON.stringify(args)}`, in a call on receiver `self`
CacheKey(self, a) == MethodName \o ":" \o JSONStringify(a)

\* A bug: `<=`, an entry is still served at its expiry time.
IsFreshInclusive(item, t) == t <= item.expira
\* Date.now() < item.expira, read at time t
IsFresh(item, t) == t < item.expira

\* A bug: the expiry is the bare ttl, not a time.
ExpiraNoNow(t) == ttl
\* A bug: the clock is read before the original method runs, not after.
ExpiraAtCall(t) == now + ttl
\* Date.now() + ttl, read at time t
Expira(t) == t + ttl

\* cache.delete(k)
MapDelete(m, k) == [x \in DOMAIN m \ {k} |-> m[x]]

\* A bug: the Map is made anew on each store, so it only ever holds the last entry.
MapSetFresh(m, k, item) == [x \in {k} |-> item]
\* cache.set(k, item)
MapSet(m, k, item) == [x \in DOMAIN m \cup {k} |-> IF x = k THEN item ELSE m[x]]

\* The entry of key k, as a sequence of none or one.
Lookup(m, k) == IF k \in DOMAIN m THEN <<m[k]>> ELSE <<>>

\* The wrapped method is called on receiver `self` with arguments a at time
\* `now`; if it calls the original method, that does `outcome` and takes dt.
CacheCall(self, a, outcome, dt) ==
  /\ Len(callLog) < MaxCalls
  /\ LET k == CacheKey(self, a)
         before == Lookup(cache, k)
         entry == [this |-> self, args |-> a, key |-> k, at |-> now, before |-> before]
     IN
     IF k \in DOMAIN cache /\ IsFresh(cache[k], now)
       THEN \* a hit: return item.valor
            /\ outcome = "value" /\ dt = 0
            /\ callLog' = Append(callLog,
                 entry @@ [hit |-> TRUE, op |-> 0, ret |-> cache[k].valor, storedAt |-> now])
            /\ UNCHANGED <<now, ttl, cache, opLog>>
       ELSE \* a miss: drop the expired entry, call the original method
            LET id == Len(opLog) + 1
                swept == IF k \in DOMAIN cache THEN MapDelete(cache, k) ELSE cache
                resultado == [kind |-> outcome, id |-> id]
            IN
            /\ now + dt <= MaxTime + 1
            /\ now' = now + dt
            /\ opLog' = Append(opLog,
                 [this |-> self, args |-> a, at |-> now,
                  state |-> IF outcome = "promise" THEN "pending" ELSE outcome])
            /\ cache' = IF outcome = "throw"
                          THEN swept
                          ELSE MapSet(swept, k,
                                 [valor |-> resultado, expira |-> Expira(now + dt)])
            /\ callLog' = Append(callLog,
                 entry @@ [hit |-> FALSE, op |-> id, ret |-> resultado, storedAt |-> now + dt])
            /\ ttl' = ttl
  /\ UNCHANGED <<retryVars, logVars>>

\* A promise the original method returned settles.
PromiseSettle(id, how) ==
  /\ id \in 1 .. Len(opLog)
  /\ opLog[id].state = "pending"
  /\ opLog' = [opLog EXCEPT ![id].state = how]
  /\ UNCHANGED <<now, ttl, cache, callLog, retryVars, logVars>>

\* Cache(ttl) has decorated the method; nothing has been called.
CacheInit ==
  /\ now = 0
  /\ ttl \in TtlValues
  /\ cache = EmptyMap
  /\ opLog = <<>>
  /\ callLog = <<>>
  /\ NoLog
  /\ retries = [e \in Execs |-> 1]
  /\ delay = [e \in Execs |-> 0]
  /\ fn = [e \in Execs |-> [k \in 1 .. MaxRetries |-> "ok"]]
  /\ errKind = [e \in Execs |-> "Error"]
  /\ pc = [e \in Execs |-> "pending"]
  /\ i = [e \in Execs |-> 0]
  /\ starts = [e \in Execs |-> <<>>]
  /\ ends = [e \in Execs |-> <<>>]
  /\ timerDue = [e \in Execs |-> 0]
  /\ delays = [e \in Execs |-> 0]
  /\ result = [e \in Execs |-> NoResult]

CacheNext ==
  \/ \E a \in ArgLists, outcome \in OpOutcomes, dt \in {0, 1} :
       CacheCall(TheInstance, a, outcome, dt)
  \/ \E id \in 1 .. MaxCalls, how \in {"fulfilled", "rejected"} : PromiseSettle(id, how)
  \/ Tick

CacheSpec == CacheInit /\ [][CacheNext]_vars

\* The same method, called with undefined, null or a number.
NullishNext ==
  \/ \E a \in NullishArgLists, outcome \in OpOutcomes, dt \in {0, 1} :
       CacheCall(TheInstance, a, outcome, dt)
  \/ \E id \in 1 .. MaxCalls, how \in {"fulfilled", "rejected"} : PromiseSettle(id, how)
  \/ Tick

NullishSpec == CacheInit /\ [][NullishNext]_vars

\* The same method, called on either of two instances.
InstanceNext ==
  \/ \E self \in Instances, a \in InstanceArgLists, outcome \in OpOutcomes, dt \in {0, 1} :
       CacheCall(self, a, outcome, dt)
  \/ \E id \in 1 .. MaxCalls, how \in {"fulfilled", "rejected"} : PromiseSettle(id, how)
  \/ Tick

InstanceSpec == CacheInit /\ [][InstanceNext]_vars

\* -------------------------------------------------------------------- Log

\* console[level] || console.log
LogMethod(level) ==
  IF level \in {"debug", "info", "warn", "error"} THEN level ELSE "log"

\* Whether making the success message throws: the formatter if there is one,
\* else JSON.stringify(result) in the default message.
SuccessMessageThrows(res) ==
  CASE logOpts.formatter = "throws" -> TRUE
    [] logOpts.formatter = "returns" -> FALSE
    [] OTHER -> res = "circular"

\* Whether making the failure message throws: the formatter if there is one;
\* the default message is built of the name and the duration only.
FailureMessageThrows == logOpts.formatter = "throws"

\* What a call has settled with: not yet, resolved with the result, or
\* rejected with an error (the original method's, or one raised in logging).
Unsettled == [kind |-> "none", with |-> "none"]
ResolvedWith(v) == [kind |-> "resolved", with |-> v]
RejectedWith(err) == [kind |-> "rejected", with |-> err]

\* The decorated method is called at time `now`: with disabled, the original
\* method itself; else the wrapper, which runs up to its await of the
\* original method. The original does `outcome`; its value is `res`.
LogInvoke(a, outcome, res) ==
  /\ Len(logCalls) < MaxCalls
  /\ opLog' = Append(opLog,
       [this |-> TheInstance, args |-> a, at |-> now,
        state |-> IF outcome = "promise" THEN "pending" ELSE outcome])
  /\ logCalls' = Append(logCalls,
       [args |-> a, res |-> res, op |-> Len(opLog) + 1, start |-> now,
        state |-> IF logOpts.disabled THEN "direct" ELSE "awaiting",
        settle |-> Unsettled])
  /\ UNCHANGED <<now, ttl, cache, callLog, logOpts, console, retryVars>>

\* The catch block, entered with `err`: console.error and rethrow, unless
\* the formatter throws first.
LogCatch(id, err) ==
  IF FailureMessageThrows
    THEN /\ console' = console
         /\ logCalls' = [logCalls EXCEPT ![id].state = "settled",
                                         ![id].settle = RejectedWith("formatError")]
    ELSE /\ console' = Append(console,
              [method |-> "error", inv |-> id, level |-> "error",
               duration |-> now - logCalls[id].start, error |-> err])
         /\ logCalls' = [logCalls EXCEPT ![id].state = "settled",
                                         ![id].settle = RejectedWith(err)]

\* The wrapper resumes after its await: the try block's rest, or the catch.
LogResume(id) ==
  /\ id \in 1 .. Len(logCalls)
  /\ logCalls[id].state = "awaiting"
  /\ opLog[logCalls[id].op].state # "pending"
  /\ IF opLog[logCalls[id].op].state \in {"value", "fulfilled"}
       THEN IF SuccessMessageThrows(logCalls[id].res)
              THEN LogCatch(id, IF logOpts.formatter = "throws"
                                  THEN "formatError" ELSE "TypeError")
              ELSE /\ console' = Append(console,
                        [method |-> LogMethod(logOpts.level), inv |-> id,
                         level |-> logOpts.level,
                         duration |-> now - logCalls[id].start, error |-> "none"])
                   /\ logCalls' = [logCalls EXCEPT ![id].state = "settled",
                                                   ![id].settle = ResolvedWith("result")]
       ELSE LogCatch(id, "originalError")
  /\ UNCHANGED <<now, cacheVars, logOpts, retryVars>>

\* Log(options) has decorated the method; nothing has been called.
LogInit ==
  /\ now = 0
  /\ logOpts \in [disabled : BOOLEAN, level : LogLevels, formatter : Formatters]
  /\ logCalls = <<>>
  /\ console = <<>>
  /\ ttl = 0
  /\ cache = EmptyMap
  /\ opLog = <<>>
  /\ callLog = <<>>
  /\ retries = [e \in Execs |-> 1]
  /\ delay = [e \in Execs |-> 0]
  /\ fn = [e \in Execs |-> [k \in 1 .. MaxRetries |-> "ok"]]
  /\ errKind = [e \in Execs |-> "Error"]
  /\ pc = [e \in Execs |-> "pending"]
  /\ i = [e \in Execs |-> 0]
  /\ starts = [e \in Execs |-> <<>>]
  /\ ends = [e \in Execs |-> <<>>]
  /\ timerDue = [e \in Execs |-> 0]
  /\ delays = [e \in Execs |-> 0]
  /\ result = [e \in Execs |-> NoResult]

LogNext ==
  \/ \E a \in InstanceArgLists, outcome \in OpOutcomes, res \in LogResults :
       LogInvoke(a, outcome, res)
  \/ \E id \in 1 .. MaxCalls, how \in {"fulfilled", "rejected"} : PromiseSettle(id, how)
  \/ \E id \in 1 .. MaxCalls : LogResume(id)
  \/ Tick

LogSpec == LogInit /\ [][LogNext]_vars

\* ------------------------------------------------------- claims on retry

\* fn resolves at some call within the allowed attempts.
HasSuccessWithin(e) == \E k \in 1 .. retries[e] : fn[e][k] = "ok"

\* The first call at which fn resolves.
FirstOk(e) ==
  CHOOSE k \in 1 .. MaxRetries :
    fn[e][k] = "ok" /\ \A j \in 1 .. (k - 1) : fn[e][j] = "fail"

\* C1: with retries >= 1 and fn failing on calls 1..k-1 and resolving on call
\* k <= retries, retry never calls fn more than k times, and once it has
\* settled it has called fn exactly k times and resolved with call k's value.
C1_SuccessAtK ==
  \A e \in Execs :
    (retries[e] >= 1 /\ HasSuccessWithin(e)) =>
      LET k == FirstOk(e) IN
        /\ Len(starts[e]) <= k
        /\ pc[e] = "done" =>
             /\ Len(starts[e]) = k
             /\ result[e].kind = "ok"
             /\ result[e].value = FnValue(e, k)

\* C1's case: fn failed once, resolved on the second of three allowed calls.
C1_Witness ==
  /\ pc["A"] = "done" /\ retries["A"] = 3
  /\ fn["A"][1] = "fail" /\ fn["A"][2] = "ok"
  /\ Len(starts["A"]) = 2 /\ result["A"].value = "value2"

\* C2: with retries = N >= 1 and fn failing on every call, retry never calls
\* fn more than N times, and once it has settled it has called fn exactly N
\* times and rejected with an error whose message is made from the error of
\* call N (and, when errors print their message, from no earlier call's).
C2_ExhaustedAfterN ==
  \A e \in Execs :
    (retries[e] >= 1 /\ \A k \in 1 .. retries[e] : fn[e][k] = "fail") =>
      /\ Len(starts[e]) <= retries[e]
      /\ pc[e] = "done" =>
           /\ Len(starts[e]) = retries[e]
           /\ result[e].kind = "exhausted"
           /\ result[e].message = "[ERROR]: " \o JSString(FnError(e, retries[e]))
           /\ errKind[e] # "object" =>
                \A j \in 1 .. (retries[e] - 1) :
                  result[e].message # "[ERROR]: " \o JSString(FnError(e, j))

\* C2's case: three allowed calls, all failed with an Error.
C2_Witness ==
  /\ pc["A"] = "done" /\ retries["A"] = 3 /\ errKind["A"] = "Error"
  /\ Len(ends["A"]) = 3
  /\ result["A"].message = "[ERROR]: Error: boom3"

\* The failed calls of fn so far that were not the last allowed one.
FailedNotLast(e) ==
  {j \in 1 .. Len(ends[e]) : fn[e][j] = "fail" /\ j < retries[e]}

\* C3: every call of fn after the first starts at least `delay` after the
\* previous call failed, and the number of waits begun equals the number of
\* failed calls that were not the last allowed one (so none follows a
\* success or the final attempt).
C3_DelayBetweenAttempts ==
  \A e \in Execs :
    /\ \A j \in 2 .. Len(starts[e]) :
         /\ fn[e][j - 1] = "fail"
         /\ starts[e][j] >= ends[e][j - 1] + delay[e]
    /\ delays[e] = Cardinality(FailedNotLast(e))
    /\ pc[e] = "sleep" => Len(ends[e]) \in FailedNotLast(e)

\* C3's case: two failures then a success, with delay 2: two waits of 2.
C3_Witness ==
  /\ pc["A"] = "done" /\ retries["A"] = 3 /\ delay["A"] = 2
  /\ result["A"].kind = "ok" /\ Len(starts["A"]) = 3
  /\ delays["A"] = 2
  /\ starts["A"][3] - starts["A"][1] >= 4

\* C8 (retry's half): once called with retries < 1 or a negative delay,
\* retry has failed without calling fn and without waiting.
C8_RetryFailsFast ==
  \A e \in Execs :
    ((retries[e] < 1 \/ delay[e] < 0) /\ pc[e] # "pending") =>
      /\ pc[e] = "done"
      /\ result[e].kind \in {"exhausted", "internal"}
      /\ Len(starts[e]) = 0
      /\ delays[e] = 0

\* C9: called with retries <= 0, retry is settled as soon as it is called:
\* rejected with the message "Falha inesperada no retry", which no wrapped
\* error carries, with no call of fn and no wait.
C9_NonPositiveRetries ==
  \A e \in Execs :
    (retries[e] <= 0 /\ pc[e] # "pending") =>
      /\ pc[e] = "done"
      /\ result[e].kind = "internal"
      /\ result[e].message = "Falha inesperada no retry"
      /\ \A k \in 1 .. MaxRetries : result[e].message # WrapError(FnError(e, k))
      /\ Len(starts[e]) = 0 /\ Len(ends[e]) = 0
      /\ delays[e] = 0

\* C9's case: retry was called with retries = 0 (and with -1).
C9_Witness ==
  /\ retries["A"] = 0 /\ pc["A"] = "done" /\ result["A"].kind = "internal"

\* An execution that has settled stays as it is.
Settled(e) ==
  pc[e] = "done" =>
    /\ pc'[e] = "done" /\ result'[e] = result[e]
    /\ starts'[e] = starts[e] /\ ends'[e] = ends[e]
    /\ delays'[e] = delays[e]

\* C10: with retries >= 1, an execution that was called goes through
\* attempts (and waits) only, settles as resolved or exhausted, stays so
\* with no further call or wait, and never ends in the internal error.
C10_StateMachine ==
  /\ [](\A e \in Execs : retries[e] >= 1 =>
          /\ result[e].kind # "internal"
          /\ Len(starts[e]) <= retries[e]
          /\ pc[e] = "done" <=> result[e].kind \in {"ok", "exhausted"})
  /\ [][\A e \in Execs : Settled(e)]_vars
  /\ \A e \in Execs :
       (retries[e] >= 1 /\ pc[e] # "pending")
         ~> (pc[e] = "done" /\ result[e].kind \in {"ok", "exhausted"})

\* C10's case: an execution with three attempts and two waits has settled.
C10_Witness ==
  /\ pc["A"] = "done" /\ retries["A"] = 3 /\ Len(ends["A"]) = 3
  /\ delays["A"] = 2 /\ result["A"].kind = "exhausted"

\* C11: at most one call of fn is in flight in an execution, exactly while
\* the execution awaits it, and every call after the first was started when
\* the call before it had already settled, as a failure.
C11_SequentialAttempts ==
  \A e \in Execs :
    /\ Len(starts[e]) - Len(ends[e]) \in {0, 1}
    /\ pc[e] = "attempt" <=> Len(starts[e]) = Len(ends[e]) + 1
    /\ \A j \in 2 .. Len(starts[e]) :
         /\ j - 1 <= Len(ends[e])
         /\ fn[e][j - 1] = "fail"
         /\ starts[e][j] >= ends[e][j - 1]

\* C11's case: the third call of fn is in flight, the first two have settled.
C11_Witness ==
  /\ pc["A"] = "attempt" /\ Len(starts["A"]) = 3 /\ Len(ends["A"]) = 2

\* -------------------------------------------------------- claims on Cache

\* Deep equality of two values: the same type and content, an object's
\* fields compared by name whatever their order.
DeepEqual(v, w) ==
  /\ v.t = w.t /\ v.n = w.n /\ v.s = w.s
  /\ Len(v.f) = Len(w.f)
  /\ {v.f[j] : j \in 1 .. Len(v.f)} = {w.f[j] : j \in 1 .. Len(w.f)}

\* Deep equality of two argument lists.
ArgsDeepEqual(a, b) ==
  /\ Len(a) = Len(b)
  /\ \A j \in 1 .. Len(a) : DeepEqual(a[j], b[j])

\* Call q is the next call after p with arguments deep-equal to p's.
NextDeepEqualCall(p, q) ==
  /\ p < q
  /\ ArgsDeepEqual(callLog[p].args, callLog[q].args)
  /\ \A r \in (p + 1) .. (q - 1) : ~ArgsDeepEqual(callLog[p].args, callLog[r].args)

\* C4: of two calls with deep-equal arguments, the first having stored its
\* result and the second made strictly before that entry's expiry, the second
\* does not call the original method and returns the very result stored.
C4_SecondCallHits ==
  \A p, q \in 1 .. Len(callLog) :
    ( /\ NextDeepEqualCall(p, q)
      /\ ~callLog[p].hit /\ callLog[p].ret.kind # "throw"
      /\ callLog[q].at < callLog[p].storedAt + ttl )
    => /\ callLog[q].hit
       /\ callLog[q].op = 0
       /\ callLog[q].ret = callLog[p].ret

\* C5: when a call of the original method failed (it threw, or the promise
\* it returned was rejected), no entry holds its result and no later call
\* with the same arguments is answered with it.
C5_FailureNeverCached ==
  \A p \in 1 .. Len(callLog) :
    (~callLog[p].hit /\ opLog[callLog[p].op].state \in {"throw", "rejected"}) =>
      /\ \A k \in DOMAIN cache : cache[k].valor.id # callLog[p].op
      /\ \A q \in (p + 1) .. Len(callLog) :
           callLog[q].args = callLog[p].args => callLog[q].ret.id # callLog[p].op

\* The entry call c found for its key had expired / had not.
FoundStale(c) == c.before # <<>> /\ c.at >= c.before[1].expira
FoundFresh(c) == c.before # <<>> /\ c.at < c.before[1].expira

\* What every call does with the entry it finds: an expired one is not
\* served, the original method is called; a live one is served as it is.
ReadsRespectExpiry ==
  \A p \in 1 .. Len(callLog) :
    /\ FoundStale(callLog[p]) => ~callLog[p].hit /\ callLog[p].op # 0
    /\ FoundFresh(callLog[p]) =>
         /\ callLog[p].hit /\ callLog[p].op = 0
         /\ callLog[p].ret = callLog[p].before[1].valor

\* What the latest call left in the Map for its key.
LastCall == callLog[Len(callLog)]
LastStored == Lookup(cache, LastCall.key)

\* C6 as claimed: a call that finds an expired entry removes it, calls the
\* original method and stores a new entry expiring at (time of storing) +
\* ttl; a call that finds a live entry leaves it in place.
C6_ExpiredIsRecomputedAndStored ==
  /\ ReadsRespectExpiry
  /\ Len(callLog) > 0 =>
       /\ FoundStale(LastCall) =>
            /\ LastCall.op = Len(opLog)
            /\ LastStored = <<[valor |-> LastCall.ret,
                              expira |-> LastCall.storedAt + ttl]>>
       /\ FoundFresh(LastCall) => LastStored = LastCall.before

\* C6 as amended: the same, except that when the original method throws no
\* new entry is stored and the key is left without one.
C6_ExpiredIsRecomputed ==
  /\ ReadsRespectExpiry
  /\ Len(callLog) > 0 =>
       /\ FoundStale(LastCall) =>
            /\ LastCall.op = Len(opLog)
            /\ LastStored =
                 IF LastCall.ret.kind = "throw" THEN <<>>
                 ELSE <<[valor |-> LastCall.ret,
                        expira |-> LastCall.storedAt + ttl]>>
       /\ FoundFresh(LastCall) => LastStored = LastCall.before

\* C6's case: with ttl 2, a second call found the first call's entry expired,
\* called the original method (which took time) and stored its result.
C6_Witness ==
  /\ ttl = 2 /\ Len(callLog) = 2 /\ Len(opLog) = 2
  /\ FoundStale(LastCall) /\ LastCall.ret.kind = "value"
  /\ LastCall.storedAt > LastCall.at
  /\ LastStored # <<>> /\ LastStored[1].expira = LastCall.storedAt + 2

\* C7: any two calls with deep-equal argument lists used the same key.
C7_DeepEqualSameKey ==
  \A p, q \in 1 .. Len(callLog) :
    ArgsDeepEqual(callLog[p].args, callLog[q].args) => callLog[p].key = callLog[q].key

\* C8 (Cache's half): with a negative ttl the original method is never
\* called and nothing is written to the Map.
C8_CacheFailsFast == ttl < 0 => (opLog = <<>> /\ cache = EmptyMap)

\* C8: invalid configuration fails before the operation is called and
\* before any wait or cache write.
C8_InvalidConfigFailsFast == C8_RetryFailsFast /\ C8_CacheFailsFast

\* Call q came after call p with the same key, less than ttl after it, while
\* the promise that p's call of the original method returned was pending.
SecondWhileFirstPending(p, q) ==
  /\ p < q
  /\ callLog[p].key = callLog[q].key
  /\ ~callLog[p].hit
  /\ opLog[callLog[p].op].state = "pending"
  /\ callLog[q].at < callLog[p].at + ttl

LiveAt(stored, t) ==
  IF stored # <<>> /\ t < stored[1].expira THEN stored ELSE <<>>

\* C13: when the latest call's call of the original method failed (it threw,
\* or its promise was rejected), the caller was handed that very failure and
\* the key holds what it held before the call (no entry added, replaced or
\* removed, an expired entry counting as none).
C13_FailureLeavesKeyUnchanged ==
  (/\ Len(callLog) > 0
   /\ ~LastCall.hit
   /\ opLog[LastCall.op].state \in {"throw", "rejected"}) =>
    /\ LastCall.ret.id = LastCall.op
    /\ LiveAt(LastStored, now) = LiveAt(LastCall.before, LastCall.at)

\* C14: with ttl = 0 every call of the wrapped method calls the original
\* method and returns what that call produced, never a stored value.
C14_ZeroTtlAlwaysMisses ==
  ttl = 0 =>
    /\ Len(opLog) = Len(callLog)
    /\ \A p \in 1 .. Len(callLog) :
         /\ ~callLog[p].hit
         /\ callLog[p].op = p
         /\ callLog[p].ret.id = p

\* C14's case: with ttl 0, a second call with the same key in the same
\* millisecond as the first, whose result was stored.
C14_Witness ==
  /\ ttl = 0 /\ Len(callLog) = 2
  /\ callLog[1].key = callLog[2].key
  /\ callLog[1].ret.kind = "value"
  /\ callLog[2].at = callLog[1].storedAt
  /\ callLog[2].before # <<>>

\* What one step does to the Map: nothing unless it is a call of the wrapped
\* method; a call touches no key but its own, and an entry that is removed
\* or replaced is one the call found expired.
MapFrame ==
  /\ callLog' = callLog => cache' = cache
  /\ callLog' # callLog =>
       LET c == callLog'[Len(callLog')] IN
         \A k \in DOMAIN cache \cup DOMAIN cache' :
           Lookup(cache', k) # Lookup(cache, k) =>
             /\ k = c.key
             /\ k \in DOMAIN cache => FoundStale(c)

\* C15: a call with key k never adds, changes or removes another key's
\* entry, an entry only goes away in a call with its own key that found it
\* expired, and the passing of time (or a promise settling) leaves the Map as
\* it is.
C15_OnlyLazyRemoval == [][MapFrame]_vars

\* C15's case: two calls with different keys; the first call's entry is still
\* in the Map, as stored, beside the second's.
C15_Witness ==
  /\ Len(callLog) = 2
  /\ callLog[1].key # callLog[2].key
  /\ DOMAIN cache = {callLog[1].key, callLog[2].key}
  /\ cache[callLog[1].key].valor = callLog[1].ret
  /\ now > callLog[2].storedAt

\* What execution e does from loop counter iv on when nothing else runs:
\* the calls of fn, the waits, and the result.
RECURSIVE Alone(_, _)
Alone(e, iv) ==
  IF ~(iv < retries[e])
    THEN [calls |-> 0, delays |-> 0, result |-> InternalError]
  ELSE IF fn[e][iv + 1] = "ok"
    THEN [calls |-> 1, delays |-> 0, result |-> Resolved(FnValue(e, iv + 1))]
  ELSE IF iv = retries[e] - 1
    THEN [calls |-> 1, delays |-> 0, result |-> Exhausted(FnError(e, iv + 1))]
  ELSE LET rest == Alone(e, iv + 1) IN
       [calls |-> rest.calls + 1, delays |-> rest.delays + 1, result |-> rest.result]

\* C16: with two executions interleaved in any order, each one that has
\* settled has called its own fn as often, waited as often and settled with
\* the same result as it does alone; and each of its waits lasted its own
\* delay at least.
C16_NoSharedState ==
  \A e \in Execs :
    /\ pc[e] = "done" =>
         /\ Len(starts[e]) = Alone(e, 0).calls
         /\ delays[e] = Alone(e, 0).delays
         /\ result[e] = Alone(e, 0).result
    /\ Len(starts[e]) <= Alone(e, 0).calls
    /\ \A j \in 2 .. Len(starts[e]) : starts[e][j] >= ends[e][j - 1] + delay[e]

\* C16's case: both have settled, with different results; B made its first
\* call while A was waiting between its first and its second, and A went on
\* to a third call after B's last.
C16_Witness ==
  /\ pc["A"] = "done" /\ pc["B"] = "done"
  /\ Len(starts["A"]) = 3 /\ Len(starts["B"]) = 2
  /\ result["A"].kind = "ok" /\ result["B"].kind = "exhausted"
  /\ ends["A"][1] < starts["B"][1] /\ starts["B"][1] < starts["A"][2]
  /\ ends["B"][2] <= starts["A"][3]

\* C17: calls that have the same key have deep-equal arguments, and a hit
\* returns what the original method returned to an earlier call with
\* deep-equal arguments.
C17_SameKeyDeepEqual ==
  \A q \in 1 .. Len(callLog) :
    /\ \A p \in 1 .. Len(callLog) :
         callLog[p].key = callLog[q].key =>
           ArgsDeepEqual(callLog[p].args, callLog[q].args)
    /\ callLog[q].hit =>
         \E p \in 1 .. (q - 1) :
           /\ ~callLog[p].hit /\ callLog[p].ret = callLog[q].ret
           /\ ArgsDeepEqual(callLog[p].args, callLog[q].args)

\* The calls with key k that went to the original method.
MissesOf(k) == {p \in 1 .. Len(callLog) : callLog[p].key = k /\ ~callLog[p].hit}

\* The latest of a non-empty set of calls.
Latest(S) == CHOOSE p \in S : \A r \in S : r <= p

\* C18: the Map has an entry for key k exactly when the latest call of the
\* original method for k returned (a value or a promise); the entry's value
\* is that result and its expiry the clock read when it was stored plus ttl,
\* so never more than ttl ahead of the present.
C18_EntryIsLatestResult ==
  \A k \in {callLog[p].key : p \in 1 .. Len(callLog)} \cup DOMAIN cache :
    /\ k \in DOMAIN cache <=>
         (MissesOf(k) # {} /\ callLog[Latest(MissesOf(k))].ret.kind # "throw")
    /\ k \in DOMAIN cache =>
         LET c == callLog[Latest(MissesOf(k))] IN
         /\ cache[k].valor = c.ret
         /\ cache[k].valor.id = c.op
         /\ cache[k].expira = c.storedAt + ttl
         /\ cache[k].expira <= now + ttl

\* C18's case: the entry of a key was stored, expired, and was stored again
\* by a second call whose original method took time.
C18_Witness ==
  /\ ttl = 2 /\ Len(callLog) = 2
  /\ callLog[1].key = callLog[2].key
  /\ ~callLog[2].hit /\ callLog[2].before # <<>>
  /\ callLog[2].storedAt = callLog[2].at + 1
  /\ cache[callLog[2].key].valor = callLog[2].ret

\* C19: of two calls with the same arguments on two different instances, the
\* first having stored its result and the second made before that entry's
\* expiry, the second does not call the original method and returns the
\* result computed on the first instance; the original method ran once, on
\* the first instance.
C19_SharedAcrossInstances ==
  \A p, q \in 1 .. Len(callLog) :
    ( /\ p < q
      /\ callLog[p].args = callLog[q].args
      /\ callLog[p].this # callLog[q].this
      /\ ~callLog[p].hit /\ callLog[p].ret.kind # "throw"
      /\ callLog[q].at < callLog[p].storedAt + ttl )
    => /\ callLog[q].hit /\ callLog[q].op = 0
       /\ callLog[q].ret = callLog[p].ret
       /\ opLog[callLog[p].op].this = callLog[p].this
       /\ \A r \in p .. q : callLog[r].args = callLog[p].args => callLog[r].op \in {0, callLog[p].op}

\* C19's case: svc1 computes the value for [5]; svc2 asks for [5] a moment
\* later and is answered with it.
C19_Witness ==
  /\ ttl = 2 /\ Len(callLog) = 2 /\ Len(opLog) = 1
  /\ callLog[1].this = "svc1" /\ callLog[2].this = "svc2"
  /\ callLog[1].args = <<Num(5)>> /\ callLog[2].args = <<Num(5)>>
  /\ callLog[1].ret.kind = "value"
  /\ callLog[2].at = callLog[1].storedAt + 1
  /\ callLog[2].hit /\ callLog[2].ret = callLog[1].ret

\* ---------------------------------------------------------- claims on Log

\* The console calls made for call id of the decorated method.
LogsOf(id) == {j \in 1 .. Len(console) : console[j].inv = id}

\* C20: every call of a Log-decorated method calls the original method once.
\* Not disabled: nothing is logged for the call while the original method is
\* pending, and once the call has settled exactly one message was logged and
\* the call resolved with the original's result, or rejected with the
\* original's error. Disabled: the call is the original method's own, and
\* nothing is logged.
C20_OutcomeTransparent ==
  /\ Len(opLog) = Len(logCalls)
  /\ \A id \in 1 .. Len(logCalls) :
       LET c == logCalls[id]
           o == opLog[c.op].state
       IN
       /\ c.op = id
       /\ logOpts.disabled => (c.state = "direct" /\ console = <<>>)
       /\ ~logOpts.disabled =>
            /\ o = "pending" => LogsOf(id) = {}
            /\ c.state = "awaiting" => LogsOf(id) = {}
            /\ c.state = "settled" =>
                 /\ Cardinality(LogsOf(id)) = 1
                 /\ c.settle = IF o \in {"value", "fulfilled"}
                                 THEN ResolvedWith("result")
                                 ELSE RejectedWith("originalError")

====
